---------------------------- MODULE Spec2Model ----------------------------
(***************************************************************************)
(* Model of the fauna_italia_viewer application: the dataset loader and    *)
(* record normaliser (services/dataService.ts) with the outcomes of its    *)
(* fetch and parse, the App state and its                                  *)
(* filter (App.tsx), the TableView filter / multi-key sort / sort-key      *)
(* toggling (components/Sidebar.tsx, second half) and the MapView region   *)
(* statistics and classification (components/MapView.tsx).                 *)
(*                                                                         *)
(* A JavaScript string is modelled as a sequence of one-character strings. *)
(* The value `undefined` is modelled by the one-element sequence Undefined,*)
(* which is no string of the model.  A row (a JavaScript object) is a      *)
(* function whose domain is the set of keys it holds.                      *)
(***************************************************************************)
EXTENDS Integers, Sequences, FiniteSets, TLC

VARIABLES
    response,         \* the outcome of fetch('./data.csv')
    parseErrors,      \* results.errors of Papa.parse is not empty
    rawData,          \* results.data: the rows Papa.parse hands to `complete`
    loading,          \* App: const [loading, setLoading]
    allData,          \* App: const [allData, setAllData]
    filters,          \* App: const [filters, setFilters]
    viewMode,         \* App: const [viewMode, setViewMode]
    selectedColumns,  \* App: const [selectedColumns, setSelectedColumns]
    tableFilters,     \* TableView: const [filters, setFilters]
    sortConfig,       \* TableView: const [sortConfig, setSortConfig]
    toggleLog         \* history of the toggleSort calls since TableView mounted

vars == <<response, parseErrors, rawData, loading, allData, filters, viewMode,
          selectedColumns, tableFilters, sortConfig, toggleLog>>

---------------------------------------------------------------------------
(* Bounds of the model *)

\* longest Genere or Specie cell of the loader's input rows (Sottogenere and
\* Sottospecie cells are one character shorter)
MaxLen == 2

\* most rows of a dataset of the filter, sort, map and application models
MaxRows == 2

---------------------------------------------------------------------------
(* JavaScript strings *)

Undefined == <<"undefined">>

\* all strings over chars of length at most n
Strs(chars, n) == UNION { [1..k -> chars] : k \in 0..n }

\* the white space String.prototype.trim removes (of the model's characters)
WhiteSpace == {" ", "\t"}

RECURSIVE trimStart(_)
trimStart(s) ==
    IF s = <<>> THEN <<>>
    ELSE IF Head(s) \in WhiteSpace THEN trimStart(Tail(s)) ELSE s

RECURSIVE trimEnd(_)
trimEnd(s) ==
    IF s = <<>> THEN <<>>
    ELSE IF s[Len(s)] \in WhiteSpace THEN trimEnd(SubSeq(s, 1, Len(s) - 1)) ELSE s

\* String.prototype.trim
trim(s) == trimEnd(trimStart(s))

\* JavaScript truthiness of a value that is a string or undefined
Truthy(v) == v # Undefined /\ v # <<>>

\* row[key]: the value held, undefined for a key the row does not hold
Get(row, key) == IF key \in DOMAIN row THEN row[key] ELSE Undefined

\* Array.prototype.join
RECURSIVE join(_, _)
join(parts, sep) ==
    IF parts = <<>> THEN <<>>
    ELSE IF Len(parts) = 1 THEN parts[1]
    ELSE parts[1] \o sep \o join(Tail(parts), sep)

\* the ASCII letters String.prototype.toLowerCase changes, and their images
UpperLetters == <<"A", "B", "C", "D", "E", "F", "G", "H", "I", "J", "K", "L", "M",
                  "N", "O", "P", "Q", "R", "S", "T", "U", "V", "W", "X", "Y", "Z">>
LowerLetters == <<"a", "b", "c", "d", "e", "f", "g", "h", "i", "j", "k", "l", "m",
                  "n", "o", "p", "q", "r", "s", "t", "u", "v", "w", "x", "y", "z">>

toLowerChar(c) ==
    IF \E i \in 1..Len(UpperLetters) : UpperLetters[i] = c
    THEN LowerLetters[CHOOSE i \in 1..Len(UpperLetters) : UpperLetters[i] = c]
    ELSE c

\* String.prototype.toLowerCase
toLowerCase(s) == [i \in 1..Len(s) |-> toLowerChar(s[i])]

\* String.prototype.includes
includes(s, q) ==
    \E i \in 0..(Len(s) - Len(q)) : SubSeq(s, i + 1, i + Len(q)) = q

\* String(row[key] || '')
cellString(row, key) == IF Truthy(Get(row, key)) THEN row[key] ELSE <<>>

\* {}: the object holding no key
EmptyObject == [k \in {} |-> <<>>]

\* { ...prev, [key]: value }
setKey(prev, key, value) ==
    [k \in DOMAIN prev \cup {key} |-> IF k = key THEN value ELSE prev[k]]

---------------------------------------------------------------------------
(* types: the region and column tables *)

\* Object.keys(REGIONS_MAP)
REGIONS_MAP ==
    <<"Ao", "Pi", "Lo", "VT", "V", "FVG", "Li", "ER", "To", "Ma", "Um", "La",
      "Abr", "Mo", "Cp", "Pu", "Bas", "Cal", "Si", "Sa", "RSM", "CV", "CT",
      "Cor", "M">>

MACRO_REGIONS ==
    [m \in {"N", "S", "Si", "Sa"} |->
        CASE m = "N" -> {"Ao", "Pi", "Lo", "VT", "V", "FVG", "Li", "ER"}
          [] m = "S" -> {"To", "Ma", "Um", "La", "Abr", "Mo", "Cp", "Pu", "Bas",
                         "Cal", "RSM", "CV", "CT", "Cor", "M"}
          [] m = "Si" -> {"Si"}
          [] m = "Sa" -> {"Sa"}]

DISTRIBUTION_COLUMNS ==
    <<"N", "S", "Si", "Sa",
      "Ao", "Pi", "Lo", "VT", "V", "FVG", "Li", "ER",
      "To", "Ma", "Um", "La", "Abr", "Mo", "Cp", "Pu",
      "Bas", "Cal", "RSM", "CV", "CT", "Cor", "M">>

RETAINED_COLUMNS ==
    <<"Nome Scientifico", "Autore", "Phylum", "Classe", "Ordine", "Famiglia",
      "Sottofamiglia", "Genere", "Specie", "Sottospecie", "End", "Alien">>
    \o DISTRIBUTION_COLUMNS

\* the elements of a sequence
Range(s) == { s[i] : i \in 1..Len(s) }

---------------------------------------------------------------------------
(* services/dataService.ts: loadAndProcessData *)

AutoreSpecie == "Autore e anno specie"
AutoreSottospecie == "Autore e anno sottospecie"

\* .filter(row => row.Genere && row.Specie)
rowRetained(row) == Truthy(Get(row, "Genere")) /\ Truthy(Get(row, "Specie"))

\* row.X?.trim() || ""
trimOrEmpty(v) == IF v = Undefined THEN <<>> ELSE trim(v)

\* the four parts of the name, before the empty ones are filtered out
nameParts(row) ==
    LET genus == trimOrEmpty(Get(row, "Genere"))
        subgenus == trimOrEmpty(Get(row, "Sottogenere"))
        species == trimOrEmpty(Get(row, "Specie"))
        subspecies == trimOrEmpty(Get(row, "Sottospecie"))
    IN  << genus,
           IF subgenus # <<>> THEN <<"(">> \o subgenus \o <<")">> ELSE <<>>,
           species,
           subspecies >>

nomeScientifico_unfiltered(row) == join(nameParts(row), <<" ">>)

\* [genus, subgenus ? `(${subgenus})` : "", species, subspecies]
\*     .filter(p => p !== "").join(" ")
nomeScientifico(row) ==
    join(SelectSeq(nameParts(row), LAMBDA p : p # <<>>), <<" ">>)

\* !!row.Sottospecie && row.Sottospecie.trim() !== ""
hasSubspecies(row) ==
    Truthy(Get(row, "Sottospecie")) /\ trim(row["Sottospecie"]) # <<>>

autore_fallback(row) ==
    IF hasSubspecies(row) /\ Truthy(Get(row, AutoreSottospecie))
    THEN Get(row, AutoreSottospecie)
    ELSE Get(row, AutoreSpecie)

\* hasSubspecies ? row["Autore e anno sottospecie"] : row["Autore e anno specie"]
autore(row) ==
    IF hasSubspecies(row) THEN Get(row, AutoreSottospecie)
    ELSE Get(row, AutoreSpecie)

\* { ...row, "Nome Scientifico": nomeScientifico, "Autore": ... }
\* A key whose value is undefined reads as a key the record does not hold, so
\* the record holds "Autore" only when the chosen author cell is defined.
processRow(row) ==
    LET keys == DOMAIN row \cup {"Nome Scientifico", "Autore"}
    IN  [k \in IF autore(row) = Undefined THEN keys \ {"Autore"} ELSE keys |->
            IF k = "Nome Scientifico" THEN nomeScientifico(row)
            ELSE IF k = "Autore" THEN autore(row)
            ELSE row[k]]

\* rawData.filter(...).map(...)
processed(rows) ==
    LET kept == SelectSeq(rows, rowRetained)
    IN  [i \in 1..Len(kept) |-> processRow(kept[i])]

---------------------------------------------------------------------------
(* App.tsx: the state after construction and the load effect *)

\* useState initial values (App lines 11-15, TableView lines 108-109)
InitApp ==
    /\ loading = TRUE
    /\ allData = <<>>
    /\ filters = EmptyObject
    /\ viewMode = "table"
    /\ selectedColumns = RETAINED_COLUMNS
    /\ tableFilters = EmptyObject
    /\ sortConfig = <<>>
    /\ toggleLog = <<>>

\* the outcomes of `await fetch('./data.csv')`: the promise rejects, or it
\* resolves to a response whose ok flag is true or false
Responses == {"rejected", "ok", "notOk"}

\* the source every other part of the model starts from: the fetch succeeds
\* and the text parses without errors
SourceGood ==
    /\ response = "ok"
    /\ parseErrors = FALSE

\* loadAndProcessData().then(data => { setAllData(data); setLoading(false); })
\* A rejected fetch rejects the promise of loadAndProcessData, and the effect
\* has no catch: the then callback never runs.  Neither response.ok nor
\* results.errors is read.
LoadComplete ==
    /\ loading = TRUE
    /\ response # "rejected"
    /\ allData' = processed(rawData)
    /\ loading' = FALSE
    /\ UNCHANGED <<response, parseErrors, rawData, filters, viewMode,
                   selectedColumns, tableFilters, sortConfig, toggleLog>>

---------------------------------------------------------------------------
(* App.tsx and TableView: the filter *)

rowMatches_caseSensitive(row, flt) ==
    \A key \in DOMAIN flt :
        LET val == flt[key]
        IN  IF ~Truthy(val) THEN TRUE
            ELSE includes(cellString(row, key), val)

\* Object.entries(filters).every(([key, value]) => { ... })
rowMatches(row, flt) ==
    \A key \in DOMAIN flt :
        LET val == flt[key]
        IN  IF ~Truthy(val) THEN TRUE
            ELSE includes(toLowerCase(cellString(row, key)), toLowerCase(val))

filteredData_skipFirst(data, flt) ==
    SelectSeq(SubSeq(data, 2, Len(data)), LAMBDA row : rowMatches(row, flt))

\* data.filter(row => Object.entries(filters).every(...)): the same code in
\* App (over allData and the App filters) and in TableView (over its data
\* prop and its own filters)
filteredData(data, flt) == SelectSeq(data, LAMBDA row : rowMatches(row, flt))

\* App: filteredData, the data prop of TableView and of MapView
appFilteredData == filteredData(allData, filters)

\* TableView: filteredData
tableFilteredData == filteredData(appFilteredData, tableFilters)

sidebarColumns_all == RETAINED_COLUMNS

\* Sidebar: RETAINED_COLUMNS.filter(col => !DISTRIBUTION_COLUMNS.includes(col))
sidebarColumns ==
    SelectSeq(RETAINED_COLUMNS, LAMBDA col : col \notin Range(DISTRIBUTION_COLUMNS))

\* the codes a click on the map passes to onRegionClick: the values of
\* TOPO_NAME_TO_CODE, Corsica, the two micro-states and the two insets
clickableCodes ==
    {"Pi", "Ao", "Lo", "VT", "V", "FVG", "Li", "ER", "To", "Um", "Ma", "La",
     "Abr", "Mo", "Cp", "Pu", "Bas", "Cal", "Si", "Sa"}
    \cup {"Cor", "RSM", "CV", "CT", "M"}

\* the view is rendered once loading is false (App lines 50-59)
Rendered == ~loading

\* the header buttons: setViewMode('table'), setViewMode('map').  TableView is
\* rendered only while viewMode is 'table', so leaving the table view
\* unmounts it and its state starts again from its useState values.
SetViewMode(mode) ==
    /\ Rendered
    /\ viewMode' = mode
    /\ IF mode = "map"
       THEN /\ tableFilters' = EmptyObject
            /\ sortConfig' = <<>>
            /\ toggleLog' = <<>>
       ELSE UNCHANGED <<tableFilters, sortConfig, toggleLog>>
    /\ UNCHANGED <<response, parseErrors, rawData, loading, allData, filters,
                   selectedColumns>>

\* handleRegionClick, called by MapView, which is rendered in the map view
HandleRegionClick(regionCode) ==
    /\ Rendered
    /\ viewMode = "map"
    /\ regionCode \in clickableCodes
    /\ filters' = setKey(filters, regionCode, <<"y">>)
    /\ viewMode' = "table"
    /\ UNCHANGED <<response, parseErrors, rawData, loading, allData,
                   selectedColumns, tableFilters, sortConfig, toggleLog>>

\* handleFilterChange, called by the Sidebar inputs and suggestion buttons;
\* the Sidebar is rendered in the map view and lists sidebarColumns
HandleFilterChange(col, value) ==
    /\ Rendered
    /\ viewMode = "map"
    /\ col \in Range(sidebarColumns)
    /\ filters' = setKey(filters, col, value)
    /\ UNCHANGED <<response, parseErrors, rawData, loading, allData, viewMode,
                   selectedColumns, tableFilters, sortConfig, toggleLog>>

\* TableView: the filter inputs of the second header row
TableSetFilter(col, value) ==
    /\ Rendered
    /\ viewMode = "table"
    /\ col \in Range(RETAINED_COLUMNS)
    /\ tableFilters' = setKey(tableFilters, col, value)
    /\ UNCHANGED <<response, parseErrors, rawData, loading, allData, filters,
                   viewMode, selectedColumns, sortConfig, toggleLog>>

\* handleColumnToggle, called by the Sidebar checkboxes:
\* prev.includes(col) ? prev.filter(c => c !== col) : [...prev, col]
HandleColumnToggle(col) ==
    /\ Rendered
    /\ viewMode = "map"
    /\ col \in Range(sidebarColumns)
    /\ selectedColumns' =
          IF col \in Range(selectedColumns)
          THEN SelectSeq(selectedColumns, LAMBDA c : c # col)
          ELSE Append(selectedColumns, col)
    /\ UNCHANGED <<response, parseErrors, rawData, loading, allData, filters,
                   viewMode, tableFilters, sortConfig, toggleLog>>

---------------------------------------------------------------------------
(* TableView: the multi-key sort and the sort-key list *)

\* the UTF-16 code unit of a character of the model
charCode(c) ==
    IF \E i \in 1..Len(UpperLetters) : UpperLetters[i] = c
    THEN 64 + (CHOOSE i \in 1..Len(UpperLetters) : UpperLetters[i] = c)
    ELSE IF \E i \in 1..Len(LowerLetters) : LowerLetters[i] = c
    THEN 96 + (CHOOSE i \in 1..Len(LowerLetters) : LowerLetters[i] = c)
    ELSE CASE c = "\t" -> 9
           [] c = " " -> 32
           [] c = "(" -> 40
           [] c = ")" -> 41
           [] c = "?" -> 63

\* valA < valB on strings: by code units, a proper prefix first
RECURSIVE strLess(_, _)
strLess(a, b) ==
    IF b = <<>> THEN FALSE
    ELSE IF a = <<>> THEN TRUE
    ELSE IF charCode(Head(a)) < charCode(Head(b)) THEN TRUE
    ELSE IF charCode(Head(a)) > charCode(Head(b)) THEN FALSE
    ELSE strLess(Tail(a), Tail(b))

compareRows_ignoreDirection(a, b, cfg) ==
    LET differ == { i \in 1..Len(cfg) :
                      cellString(a, cfg[i].key) # cellString(b, cfg[i].key) }
    IN  IF differ = {} THEN 0
        ELSE LET i == CHOOSE x \in differ : \A y \in differ : x <= y
             IN  IF strLess(cellString(a, cfg[i].key), cellString(b, cfg[i].key))
                 THEN -1 ELSE 1

\* the comparator: the first key of sortConfig on which the two rows differ
\* decides, by its direction; 0 when they differ on none
RECURSIVE compareRows(_, _, _)
compareRows(a, b, cfg) ==
    IF cfg = <<>> THEN 0
    ELSE LET valA == cellString(a, Head(cfg).key)
             valB == cellString(b, Head(cfg).key)
         IN  IF strLess(valA, valB)
             THEN (IF Head(cfg).direction = "asc" THEN -1 ELSE 1)
             ELSE IF strLess(valB, valA)
             THEN (IF Head(cfg).direction = "asc" THEN 1 ELSE -1)
             ELSE compareRows(a, b, Tail(cfg))

\* one step of Array.prototype.sort, a stable sort: e goes after the last
\* element of the sorted prefix that does not compare greater than it
RECURSIVE insertRow(_, _, _)
insertRow(sorted, e, cfg) ==
    IF sorted = <<>> THEN <<e>>
    ELSE IF compareRows(sorted[Len(sorted)], e, cfg) > 0
    THEN Append(insertRow(SubSeq(sorted, 1, Len(sorted) - 1), e, cfg),
                sorted[Len(sorted)])
    ELSE Append(sorted, e)

\* [...filteredData].sort(comparator)
RECURSIVE stableSort(_, _)
stableSort(data, cfg) ==
    IF data = <<>> THEN <<>>
    ELSE insertRow(stableSort(SubSeq(data, 1, Len(data) - 1), cfg),
                   data[Len(data)], cfg)

\* TableView: sortedData
sortedData(data, cfg) == IF Len(cfg) = 0 THEN data ELSE stableSort(data, cfg)

\* the rows TableView shows
tableSortedData == sortedData(tableFilteredData, sortConfig)

\* prev.filter(s => s.key !== key)
withoutKey(prev, key) == SelectSeq(prev, LAMBDA e : e.key # key)

toggleSort_flip(prev, key, shiftKey) ==
    LET held == { i \in 1..Len(prev) : prev[i].key = key }
        dir == IF held = {} THEN "asc"
               ELSE IF prev[CHOOSE i \in held : \A j \in held : i <= j].direction = "asc"
               THEN "desc" ELSE "asc"
        next == [key |-> key, direction |-> dir]
    IN  IF shiftKey THEN Append(withoutKey(prev, key), next) ELSE <<next>>

toggleSort_keepOthers(prev, key, shiftKey) ==
    LET held == { i \in 1..Len(prev) : prev[i].key = key }
        hasNext == IF held # {}
                   THEN prev[CHOOSE i \in held : \A j \in held : i <= j].direction = "asc"
                   ELSE TRUE
        next == IF held # {} THEN [key |-> key, direction |-> "desc"]
                ELSE [key |-> key, direction |-> "asc"]
    IN  IF ~hasNext THEN withoutKey(prev, key)
        ELSE Append(withoutKey(prev, key), next)

toggleSort_appendOnly(prev, key, shiftKey) ==
    LET held == { i \in 1..Len(prev) : prev[i].key = key }
        hasNext == IF held # {}
                   THEN prev[CHOOSE i \in held : \A j \in held : i <= j].direction = "asc"
                   ELSE TRUE
        next == IF held # {} THEN [key |-> key, direction |-> "desc"]
                ELSE [key |-> key, direction |-> "asc"]
    IN  IF shiftKey
        THEN IF ~hasNext THEN withoutKey(prev, key) ELSE Append(prev, next)
        ELSE IF hasNext THEN <<next>> ELSE <<>>

\* the updater toggleSort hands to setSortConfig.  `existing` is the first
\* entry of prev with the key; hasNext is false where the code has next = null.
toggleSort(prev, key, shiftKey) ==
    LET held == { i \in 1..Len(prev) : prev[i].key = key }
        existing == prev[CHOOSE i \in held : \A j \in held : i <= j]
        hasNext == IF held # {} THEN existing.direction = "asc" ELSE TRUE
        next == IF held # {} THEN [key |-> key, direction |-> "desc"]
                ELSE [key |-> key, direction |-> "asc"]
    IN  IF shiftKey
        THEN IF ~hasNext THEN withoutKey(prev, key)
             ELSE Append(withoutKey(prev, key), next)
        ELSE IF hasNext THEN <<next>> ELSE <<>>

\* the direction the indicator of a column header shows:
\* sortConfig.find(s => s.key === col)?.direction
directionOf(cfg, key) ==
    LET held == { i \in 1..Len(cfg) : cfg[i].key = key }
    IN  IF held = {} THEN "absent"
        ELSE cfg[CHOOSE i \in held : \A j \in held : i <= j].direction

\* how many states of a key the history keeps
LogLength == 4

\* the history after a call: the states the key went through over the latest
\* consecutive calls with this key and this gesture, the last LogLength kept
\* and the list the latest call was applied to
logToggle(log, key, shiftKey, before, after, prev) ==
    IF log # <<>> /\ log[1].key = key /\ log[1].shiftKey = shiftKey
    THEN LET dirs == Append(log[1].dirs, after)
         IN  << [ log[1] EXCEPT !.dirs =
                    IF Len(dirs) > LogLength
                    THEN SubSeq(dirs, Len(dirs) - LogLength + 1, Len(dirs))
                    ELSE dirs,
                  !.prev = prev ] >>
    ELSE << [key |-> key, shiftKey |-> shiftKey, dirs |-> <<before, after>>,
             prev |-> prev] >>

\* onClick={(e) => toggleSort(col, e.shiftKey)} on a column header
ToggleSort(key, shiftKey) ==
    /\ Rendered
    /\ viewMode = "table"
    /\ key \in Range(RETAINED_COLUMNS)
    /\ sortConfig' = toggleSort(sortConfig, key, shiftKey)
    /\ toggleLog' = logToggle(toggleLog, key, shiftKey,
                              directionOf(sortConfig, key),
                              directionOf(sortConfig', key), sortConfig)
    /\ UNCHANGED <<response, parseErrors, rawData, loading, allData, filters,
                   viewMode, selectedColumns, tableFilters>>

---------------------------------------------------------------------------
(* MapView: the region statistics and the colour of a region *)

\* a colour: one of the fixed colours, or colorScale(t) with t the quotient
\* num / den as getColor computes it (den = 0 where it would divide by zero)
FixedColor(hex) == [kind |-> "fixed", hex |-> hex, num |-> 0, den |-> 1]
ScaleColor(num, den) == [kind |-> "colorScale", hex |-> "", num |-> num, den |-> den]

SoftGreen == FixedColor("#86efac")
SoftYellow == FixedColor("#fef08a")
SoftSlate == FixedColor("#f1f5f9")

regionCount_countDoubtful(data, code) ==
    Cardinality({ i \in 1..Len(data) : Get(data[i], code) \in {<<"y">>, <<"?">>} })

\* data.filter(row => row[code] === 'y').length
regionCount(data, code) ==
    Cardinality({ i \in 1..Len(data) : Get(data[i], code) = <<"y">> })

\* stats.regionStats: the count of each key of REGIONS_MAP
regionStats(data) == [code \in Range(REGIONS_MAP) |-> regionCount(data, code)]

\* Math.max(...counts, 1) and Math.min(...counts) over
\* Object.values(stats.regionStats)
maxVal(st) ==
    LET counts == { st[c] : c \in DOMAIN st } \cup {1}
    IN  CHOOSE m \in counts : \A x \in counts : x <= m

minVal(st) ==
    LET counts == { st[c] : c \in DOMAIN st }
    IN  CHOOSE m \in counts : \A x \in counts : m <= x

\* stats.regionStats[code] || 0
countOf(st, code) == IF code \in DOMAIN st THEN st[code] ELSE 0

getColor_unguarded(code, data, st) ==
    IF Len(data) = 0 THEN SoftSlate
    ELSE IF Len(data) = 1
    THEN LET val == Get(data[1], code)
         IN  IF val = <<"y">> THEN SoftGreen
             ELSE IF val = <<"?">> THEN SoftYellow
             ELSE SoftSlate
    ELSE IF countOf(st, code) = 0 THEN SoftSlate
    ELSE ScaleColor(countOf(st, code) - minVal(st), maxVal(st) - minVal(st))

getColor_alwaysCounts(code, data, st) ==
    IF Len(data) = 0 THEN SoftSlate
    ELSE IF countOf(st, code) = 0 THEN SoftSlate
    ELSE IF maxVal(st) = minVal(st) THEN ScaleColor(1, 1)
    ELSE ScaleColor(countOf(st, code) - minVal(st), maxVal(st) - minVal(st))

\* getColor(code), reading the data prop and the memoised stats.regionStats
getColor(code, data, st) ==
    IF Len(data) = 0 THEN SoftSlate
    ELSE IF Len(data) = 1
    THEN LET val == Get(data[1], code)
         IN  IF val = <<"y">> THEN SoftGreen
             ELSE IF val = <<"?">> THEN SoftYellow
             ELSE SoftSlate
    ELSE IF countOf(st, code) = 0 THEN SoftSlate
    ELSE IF maxVal(st) = minVal(st) THEN ScaleColor(1, 1)
    ELSE ScaleColor(countOf(st, code) - minVal(st), maxVal(st) - minVal(st))

\* the legend: "Data resolution: Regional", whatever the data
dataResolution(data) == "regional"

---------------------------------------------------------------------------
(* The loader on bounded input rows *)

\* the cells of a taxon-name column: every string of blanks and one letter
NameCells(letter, n) == Strs({" ", letter}, n)

LoadCells(key) ==
    CASE key = "Genere" -> NameCells("g", MaxLen)
      [] key = "Sottogenere" -> NameCells("u", MaxLen - 1)
      [] key = "Specie" -> NameCells("s", MaxLen)
      [] key = "Sottospecie" -> NameCells("t", MaxLen - 1)
      [] key = AutoreSpecie -> {<<"x">>}
      [] key = AutoreSottospecie -> {<<>>, <<"z">>}

LoadKeys == {"Genere", "Sottogenere", "Specie", "Sottospecie",
             AutoreSpecie, AutoreSottospecie}

\* a cell of the input, or no cell at all (the row does not hold the key)
Opt(cells) == cells \cup {Undefined}

\* the row holding the keys of f whose value is defined
RowOf(f) == [k \in {x \in DOMAIN f : f[x] # Undefined} |-> f[k]]

LoadRows ==
    { RowOf([k \in LoadKeys |->
                CASE k = "Genere" -> g
                  [] k = "Sottogenere" -> u
                  [] k = "Specie" -> s
                  [] k = "Sottospecie" -> t
                  [] k = AutoreSpecie -> x
                  [] k = AutoreSottospecie -> z]) :
        g \in Opt(LoadCells("Genere")), u \in Opt(LoadCells("Sottogenere")),
        s \in Opt(LoadCells("Specie")), t \in Opt(LoadCells("Sottospecie")),
        x \in Opt(LoadCells(AutoreSpecie)), z \in Opt(LoadCells(AutoreSottospecie)) }

InitLoad ==
    /\ SourceGood
    /\ rawData \in { <<r>> : r \in LoadRows }
    /\ InitApp

NextLoad == LoadComplete

SpecLoad == InitLoad /\ [][NextLoad]_vars

\* the records shown once the load has completed
Loaded == ~loading

\* the trimmed taxon-name cell of a record, empty when the cell is absent
Trimmed(rec, key) ==
    LET v == Get(rec, key) IN IF v = Undefined THEN <<>> ELSE trim(v)

\* C1: every record of the loaded collection has a Genere and a Specie that
\* are non-empty after trimming (a row whose Genere or Specie is absent, empty
\* or only white space produces no record).
C1_NoBlankGenusOrSpecies ==
    Loaded => \A i \in 1..Len(allData) :
        /\ Trimmed(allData[i], "Genere") # <<>>
        /\ Trimmed(allData[i], "Specie") # <<>>

\* acc followed by part, one space between them, nothing added for an empty part
AppendPart(acc, part) ==
    IF part = <<>> THEN acc
    ELSE IF acc = <<>> THEN part
    ELSE acc \o <<" ">> \o part

\* Genere, "(" Sottogenere ")", Specie, Sottospecie, in that order
ExpectedName(rec) ==
    LET g == Trimmed(rec, "Genere")
        u == Trimmed(rec, "Sottogenere")
        sp == Trimmed(rec, "Specie")
        t == Trimmed(rec, "Sottospecie")
        paren == IF u = <<>> THEN <<>> ELSE <<"(">> \o u \o <<")">>
    IN  AppendPart(AppendPart(AppendPart(g, paren), sp), t)

\* the lengths of the non-empty trimmed components, parentheses included
PartLengths(rec) ==
    LET u == Trimmed(rec, "Sottogenere")
    IN  << Len(Trimmed(rec, "Genere")),
           IF u = <<>> THEN 0 ELSE Len(u) + 2,
           Len(Trimmed(rec, "Specie")),
           Len(Trimmed(rec, "Sottospecie")) >>

\* the number of non-empty components
PartCount(rec) == Cardinality({ i \in 1..4 : PartLengths(rec)[i] > 0 })

\* C2: the "Nome Scientifico" of every retained row is its trimmed components
\* Genere, (Sottogenere), Specie, Sottospecie in that order, the empty ones
\* omitted and the others joined by exactly one space: no leading or trailing
\* separator, no separator beyond one per gap, no empty parentheses.
C2_NomeScientificoComposition ==
    Loaded => \A i \in 1..Len(allData) :
        LET rec == allData[i]
            name == rec["Nome Scientifico"]
            lens == PartLengths(rec)
        IN  /\ name = ExpectedName(rec)
            /\ Len(name) = lens[1] + lens[2] + lens[3] + lens[4]
                            + (IF PartCount(rec) = 0 THEN 0 ELSE PartCount(rec) - 1)
            /\ name # <<>> => name[1] # " " /\ name[Len(name)] # " "
            /\ \A j \in 1..(Len(name) - 1) : ~(name[j] = "(" /\ name[j + 1] = ")")

\* a row with blanks around the genus, a subgenus and a white-space-only
\* subspecies has been loaded as "g (u) s"
C2_Witness ==
    /\ Loaded
    /\ \E i \in 1..Len(allData) :
        /\ Get(allData[i], "Genere") = <<" ", "g">>
        /\ Get(allData[i], "Sottogenere") = <<"u">>
        /\ Get(allData[i], "Sottospecie") = <<" ">>
        /\ allData[i]["Nome Scientifico"] = <<"g", " ", "(", "u", ")", " ", "s">>

\* C3: the "Autore" of every retained row is its raw "Autore e anno
\* sottospecie" cell when the trimmed Sottospecie is non-empty and its raw
\* "Autore e anno specie" cell otherwise; an empty subspecies author does not
\* fall back to the species author.
C3_AutoreSelection ==
    Loaded => \A i \in 1..Len(allData) :
        LET rec == allData[i]
        IN  Get(rec, "Autore") =
                IF Trimmed(rec, "Sottospecie") # <<>>
                THEN Get(rec, AutoreSottospecie)
                ELSE Get(rec, AutoreSpecie)

\* a row with a subspecies, an empty subspecies author and a species author
\* has been loaded with the empty author
C3_Witness ==
    /\ Loaded
    /\ \E i \in 1..Len(allData) :
        /\ Trimmed(allData[i], "Sottospecie") = <<"t">>
        /\ Get(allData[i], AutoreSottospecie) = <<>>
        /\ Get(allData[i], AutoreSpecie) = <<"x">>
        /\ Get(allData[i], "Autore") = <<>>

---------------------------------------------------------------------------
(* The filter on bounded inputs *)

\* every sequence of at most n rows
Datasets(rows, n) == UNION { [1..k -> rows] : k \in 0..n }

\* rows that pass the loader, with a Famiglia cell and a Lo cell
FilterRows ==
    { RowOf([k \in {"Genere", "Specie", "Famiglia", "Lo"} |->
                CASE k = "Genere" -> <<"g">>
                  [] k = "Specie" -> <<"s">>
                  [] k = "Famiglia" -> f
                  [] k = "Lo" -> lo]) :
        f \in Opt({<<>>, <<"A", "b">>, <<"b", "a">>}), lo \in Opt({<<"y">>}) }

\* what the user types into a filter input
Queries == {<<>>, <<"a", "B">>, <<"b">>}

\* the Sidebar filter inputs the user types into; no row holds a Phylum
FilterCols == {"Famiglia", "Phylum"}

\* the TableView filter inputs the user types into
TableFilterCols == {"Famiglia"}

\* the regions the user clicks
ClickCodes == {"Lo"}

InitFilter ==
    /\ SourceGood
    /\ rawData \in Datasets(FilterRows, MaxRows)
    /\ InitApp

NextFilter ==
    \/ LoadComplete
    \/ \E mode \in {"table", "map"} : SetViewMode(mode)
    \/ \E col \in FilterCols, value \in Queries : HandleFilterChange(col, value)
    \/ \E code \in ClickCodes : HandleRegionClick(code)
    \/ \E col \in TableFilterCols, value \in Queries : TableSetFilter(col, value)

SpecFilter == InitFilter /\ [][NextFilter]_vars

\* the keys of a filter map whose query is not empty
ActiveKeys(P) == { k \in DOMAIN P : P[k] # <<>> }

\* q occurs in s, character by character, at some offset
Contains(s, q) ==
    \E off \in 0..Len(s) :
        /\ off + Len(q) <= Len(s)
        /\ \A j \in 1..Len(q) : s[off + j] = q[j]

\* the string of r[field], empty if the field is missing
CellText(r, field) == IF field \in DOMAIN r THEN r[field] ELSE <<>>

\* r satisfies every active predicate of P
Satisfies(r, P) ==
    \A k \in ActiveKeys(P) :
        Contains(toLowerCase(CellText(r, k)), toLowerCase(P[k]))

\* out is the subsequence of S, input order kept, of the records satisfying P
IsMatchingSubsequence(out, S, P) ==
    LET idx == { i \in 1..Len(S) : Satisfies(S[i], P) }
        nth(j) == CHOOSE i \in idx : Cardinality({ m \in idx : m < i }) = j - 1
    IN  /\ Len(out) = Cardinality(idx)
        /\ \A j \in 1..Len(out) : out[j] = S[nth(j)]

\* P without the keys mapped to the empty query
WithoutEmptyQueries(P) == [k \in ActiveKeys(P) |-> P[k]]

\* C4: the filtered result (of App over allData, of TableView over its data)
\* is exactly the subsequence, in input order, of the records whose lowercased
\* cell (empty if missing) contains the lowercased query for every key with a
\* non-empty query; a key mapped to the empty query acts as an absent key, and
\* with no active predicate the result is the input.
C4_FilterIsMatchingSubsequence ==
    Rendered =>
        /\ IsMatchingSubsequence(appFilteredData, allData, filters)
        /\ IsMatchingSubsequence(tableFilteredData, appFilteredData, tableFilters)
        /\ appFilteredData = filteredData(allData, WithoutEmptyQueries(filters))
        /\ tableFilteredData =
               filteredData(appFilteredData, WithoutEmptyQueries(tableFilters))
        /\ ActiveKeys(filters) = {} => appFilteredData = allData
        /\ ActiveKeys(tableFilters) = {} => tableFilteredData = appFilteredData

\* two records are loaded, the filter map holds an empty query and the query
\* "aB", and only the second record ("Ab") is kept
C4_Witness ==
    /\ Rendered
    /\ Len(allData) = 2
    /\ DOMAIN filters = {"Famiglia", "Phylum"}
    /\ filters["Phylum"] = <<>>
    /\ filters["Famiglia"] = <<"a", "B">>
    /\ Get(allData[1], "Famiglia") = <<"b", "a">>
    /\ Get(allData[2], "Famiglia") = <<"A", "b">>
    /\ appFilteredData = <<allData[2]>>

\* C14: filtering is idempotent: filtering the filtered records again with
\* the same filter map gives the same records in the same order, for the App
\* filter over the loaded records and for the table filter over its data.
C14_FilterIdempotent ==
    /\ filteredData(appFilteredData, filters) = appFilteredData
    /\ filteredData(tableFilteredData, tableFilters) = tableFilteredData

\* two records are loaded, the region filter Lo = "y" keeps only the second,
\* and the table filter "b" on Famiglia keeps it too
C14_Witness ==
    /\ Rendered
    /\ viewMode = "table"
    /\ Len(allData) = 2
    /\ DOMAIN filters = {"Lo"}
    /\ filters["Lo"] = <<"y">>
    /\ appFilteredData = <<allData[2]>>
    /\ DOMAIN tableFilters = {"Famiglia"}
    /\ tableFilters["Famiglia"] = <<"b">>
    /\ tableFilteredData = <<allData[2]>>

---------------------------------------------------------------------------
(* The sort on bounded inputs *)

\* rows that pass the loader; Genere differs in case, Famiglia may be absent
\* or a prefix of another, and Specie tells apart rows equal on both
SortRows ==
    { RowOf([k \in {"Genere", "Specie", "Famiglia"} |->
                CASE k = "Genere" -> g
                  [] k = "Specie" -> sp
                  [] k = "Famiglia" -> f]) :
        g \in {<<"g">>, <<"H">>}, sp \in {<<"s">>, <<"t">>},
        f \in Opt({<<"a">>, <<"a", "b">>}) }

\* the column headers the user clicks
SortCols == {"Famiglia", "Genere"}

InitSort ==
    /\ SourceGood
    /\ rawData \in Datasets(SortRows, MaxRows)
    /\ InitApp

NextSort ==
    \/ LoadComplete
    \/ \E mode \in {"table", "map"} : SetViewMode(mode)
    \/ \E key \in SortCols, shiftKey \in BOOLEAN : ToggleSort(key, shiftKey)

SpecSort == InitSort /\ [][NextSort]_vars

\* a comes before b as case-sensitive strings: at the first position where
\* they differ a has the smaller code unit, or a ends there
StrBefore(a, b) ==
    \E i \in 1..Len(b) :
        /\ \A j \in 1..(i - 1) : j <= Len(a) /\ a[j] = b[j]
        /\ \/ i = Len(a) + 1
           \/ i <= Len(a) /\ charCode(a[i]) < charCode(b[i])

\* the keys, in priority order, on which records a and b differ
DifferOn(a, b, cfg) ==
    { i \in 1..Len(cfg) : CellText(a, cfg[i].key) # CellText(b, cfg[i].key) }

\* a is strictly before b in the lexicographic order of the keys
KeyBefore(a, b, cfg) ==
    /\ DifferOn(a, b, cfg) # {}
    /\ LET i == CHOOSE x \in DifferOn(a, b, cfg) : \A y \in DifferOn(a, b, cfg) : x <= y
           va == CellText(a, cfg[i].key)
           vb == CellText(b, cfg[i].key)
       IN  IF cfg[i].direction = "asc" THEN StrBefore(va, vb) ELSE StrBefore(vb, va)

\* the one-to-one maps of 1..n onto itself
Perms(n) == { f \in [1..n -> 1..n] : \A i, j \in 1..n : f[i] = f[j] => i = j }

\* out is a permutation of data, in the order of the keys, records equal on
\* every key in their input order
IsStableSortOf(out, data, cfg) ==
    /\ Len(out) = Len(data)
    /\ \E f \in Perms(Len(data)) :
        /\ \A j \in 1..Len(out) : out[j] = data[f[j]]
        /\ \A j, k \in 1..Len(out) :
              j < k => /\ ~KeyBefore(data[f[k]], data[f[j]], cfg)
                       /\ DifferOn(data[f[j]], data[f[k]], cfg) = {} => f[j] < f[k]

\* the keys of cfg that some record of data holds
KnownKeys(data, cfg) ==
    SelectSeq(cfg, LAMBDA e : \E i \in 1..Len(data) : e.key \in DOMAIN data[i])

\* C5: sortedData is a permutation of its input in the lexicographic order of
\* the sort keys (case-sensitive strings, a missing value as the empty string,
\* reversed for a descending key); records equal on every key keep their
\* input order; a key no record holds contributes nothing to the order.
C5_StableMultiKeySort ==
    Rendered =>
        /\ IsStableSortOf(tableSortedData, tableFilteredData, sortConfig)
        /\ tableSortedData =
               sortedData(tableFilteredData, KnownKeys(tableFilteredData, sortConfig))

\* two records in the wrong order for [Famiglia asc, Genere desc], equal on
\* Famiglia, have been swapped by the second key
C5_Witness ==
    /\ Rendered
    /\ Len(sortConfig) = 2
    /\ sortConfig[1] = [key |-> "Famiglia", direction |-> "asc"]
    /\ sortConfig[2] = [key |-> "Genere", direction |-> "desc"]
    /\ Len(tableFilteredData) = 2
    /\ CellText(tableFilteredData[1], "Famiglia") = CellText(tableFilteredData[2], "Famiglia")
    /\ tableFilteredData[1]["Genere"] = <<"H">>
    /\ tableFilteredData[2]["Genere"] = <<"g">>
    /\ tableSortedData = <<tableFilteredData[2], tableFilteredData[1]>>

\* one activation takes a key from the first state to the second
CycleStep(before, after) ==
    \/ before = "absent" /\ after = "asc"
    \/ before = "asc" /\ after = "desc"
    \/ before = "desc" /\ after = "absent"

\* C10: activating a key that is not held inserts it ascending, a key held
\* ascending becomes descending, a key held descending is removed; three
\* consecutive activations of one key with one gesture take it
\* absent -> asc -> desc -> absent.
C10_ToggleCycle ==
    toggleLog # <<>> =>
        LET dirs == toggleLog[1].dirs
        IN  /\ dirs[Len(dirs)] = directionOf(sortConfig, toggleLog[1].key)
            /\ \A i \in 1..(Len(dirs) - 1) : CycleStep(dirs[i], dirs[i + 1])
            /\ (Len(dirs) = 4 /\ dirs[1] = "absent")
                  => dirs = <<"absent", "asc", "desc", "absent">>

\* Genere has been activated three times in a row with shift held, while
\* Famiglia stayed in the list, and is absent again
C10_Witness ==
    /\ toggleLog # <<>>
    /\ toggleLog[1].key = "Genere"
    /\ toggleLog[1].shiftKey
    /\ toggleLog[1].dirs = <<"absent", "asc", "desc", "absent">>
    /\ Len(sortConfig) = 1
    /\ sortConfig[1].key = "Famiglia"

\* the latest toggleSort call: its key, its gesture, the list it was applied to
LastKey == toggleLog[1].key
LastShift == toggleLog[1].shiftKey
LastPrev == toggleLog[1].prev

\* the positions of a key in a sort-key list
PositionsOf(cfg, key) == { i \in 1..Len(cfg) : cfg[i].key = key }

\* C11: with shift held, toggling a key that is in the list keeps the other
\* keys, their directions and their relative order; a key that cycles to
\* descending stays at the position it had, and a key that cycles to removed
\* is the only one dropped.
C11_ExtendUpdatesInPlace ==
    (toggleLog # <<>> /\ LastShift /\ PositionsOf(LastPrev, LastKey) # {}) =>
        /\ withoutKey(sortConfig, LastKey) = withoutKey(LastPrev, LastKey)
        /\ directionOf(LastPrev, LastKey) = "asc" =>
              /\ Len(sortConfig) = Len(LastPrev)
              /\ PositionsOf(sortConfig, LastKey) = PositionsOf(LastPrev, LastKey)
              /\ directionOf(sortConfig, LastKey) = "desc"
        /\ directionOf(LastPrev, LastKey) = "desc" =>
              sortConfig = withoutKey(LastPrev, LastKey)

\* C12: without shift, the list after toggling a key holds no other key: it
\* is the key ascending if the key was not held, the key descending if it was
\* held ascending, and empty if it was held descending, whatever the list held
\* before.
C12_ReplaceLeavesOnlyKey ==
    (toggleLog # <<>> /\ ~LastShift) =>
        /\ \A i \in 1..Len(sortConfig) : sortConfig[i].key = LastKey
        /\ sortConfig =
              CASE directionOf(LastPrev, LastKey) = "absent" ->
                     << [key |-> LastKey, direction |-> "asc"] >>
                [] directionOf(LastPrev, LastKey) = "asc" ->
                     << [key |-> LastKey, direction |-> "desc"] >>
                [] directionOf(LastPrev, LastKey) = "desc" -> << >>

\* Genere, second of two keys and ascending, has been toggled without shift:
\* Famiglia is gone and Genere is descending
C12_Witness ==
    /\ toggleLog # <<>>
    /\ ~LastShift
    /\ LastKey = "Genere"
    /\ LastPrev = << [key |-> "Famiglia", direction |-> "asc"],
                     [key |-> "Genere", direction |-> "asc"] >>
    /\ sortConfig = << [key |-> "Genere", direction |-> "desc"] >>

\* C15: the sort-key list never holds a key twice, every direction in it is
\* asc or desc, and the list a call without shift leaves has at most one
\* entry.
C15_SortConfigWellFormed ==
    /\ \A i, j \in 1..Len(sortConfig) :
          sortConfig[i].key = sortConfig[j].key => i = j
    /\ \A i \in 1..Len(sortConfig) : sortConfig[i].direction \in {"asc", "desc"}
    /\ (toggleLog # <<>> /\ ~LastShift) => Len(sortConfig) <= 1

\* a key of a two-key list has been toggled again with shift held, and the
\* list still holds each key once
C15_Witness ==
    /\ toggleLog # <<>>
    /\ LastShift
    /\ Len(LastPrev) = 2
    /\ PositionsOf(LastPrev, LastKey) # {}
    /\ Len(sortConfig) = 2
    /\ sortConfig[1].key # sortConfig[2].key

---------------------------------------------------------------------------
(* The map on bounded inputs *)

\* rows that pass the loader: every region cell is absent or every region
\* cell is "y", except the Lo and Si cells, which vary on their own; the macro
\* cell N is absent or "y"
MapRows ==
    { RowOf([k \in {"Genere", "Specie", "N"} \cup Range(REGIONS_MAP) |->
                CASE k = "Genere" -> <<"g">>
                  [] k = "Specie" -> <<"s">>
                  [] k = "N" -> n
                  [] k = "Lo" -> lo
                  [] k = "Si" -> si
                  [] OTHER -> base]) :
        base \in Opt({<<"y">>}), lo \in Opt({<<"y">>, <<"?">>, <<>>, <<"Y">>}),
        si \in Opt({<<"y">>}), n \in Opt({<<"y">>}) }

InitMap ==
    /\ SourceGood
    /\ rawData \in Datasets(MapRows, MaxRows)
    /\ InitApp

NextMap ==
    \/ LoadComplete
    \/ \E mode \in {"table", "map"} : SetViewMode(mode)

SpecMap == InitMap /\ [][NextMap]_vars

\* MapView is on screen, over the data prop appFilteredData
MapShown == Rendered /\ viewMode = "map"

\* the tri-state value of a record for a region or macro code
RegionValue(rec, code) ==
    IF code \in DOMAIN rec /\ rec[code] = <<"y">> THEN "Present"
    ELSE IF code \in DOMAIN rec /\ rec[code] = <<"?">> THEN "Doubtful"
    ELSE "Absent"

\* the number of records of data that are Present in a region
PresentCount(data, code) ==
    Cardinality({ i \in 1..Len(data) : RegionValue(data[i], code) = "Present" })

\* C6: for the collection passed to the map and each of the 25 region codes,
\* the aggregate count of the region is the number of records whose value for
\* it is exactly Present; Doubtful and every other value count 0.
C6_RegionCountsPresent ==
    MapShown =>
        LET st == regionStats(appFilteredData)
        IN  /\ Cardinality(DOMAIN st) = 25
            /\ \A code \in DOMAIN st : st[code] = PresentCount(appFilteredData, code)

\* the map shows two records, Lo present in one and doubtful in the other,
\* and counts 1 for Lo
C6_Witness ==
    /\ MapShown
    /\ Len(appFilteredData) = 2
    /\ Get(appFilteredData[1], "Lo") = <<"y">>
    /\ Get(appFilteredData[2], "Lo") = <<"?">>
    /\ regionStats(appFilteredData)["Lo"] = 1

\* the colour MapView gives a code over the collection it is passed
ColorShown(code) == getColor(code, appFilteredData, regionStats(appFilteredData))

\* the concrete region codes that are not macro codes as well
ConcreteOnly == Range(REGIONS_MAP) \ DOMAIN MACRO_REGIONS

\* the macro parent of a region code, by the MACRO_REGIONS membership table
MacroParent(code) == CHOOSE m \in DOMAIN MACRO_REGIONS : code \in MACRO_REGIONS[m]

\* every record has a non-empty concrete region field
AllRegional(data) ==
    \A i \in 1..Len(data) :
        \E code \in Range(REGIONS_MAP) : trimOrEmpty(Get(data[i], code)) # <<>>

\* the records populate macro fields and no concrete region field
MacroOnly(data) ==
    /\ data # <<>>
    /\ \A i \in 1..Len(data) :
        /\ \E m \in DOMAIN MACRO_REGIONS : trimOrEmpty(Get(data[i], m)) # <<>>
        /\ \A code \in ConcreteOnly : trimOrEmpty(Get(data[i], code)) = <<>>

\* C7: a collection whose records all have a non-empty concrete region field
\* is in the "regional" tier; a collection whose records populate only macro
\* fields is in the "macro" tier, and there every concrete region is
\* classified as its macro parent is.
C7_ResolutionTier ==
    MapShown =>
        /\ (appFilteredData # <<>> /\ AllRegional(appFilteredData))
              => dataResolution(appFilteredData) = "regional"
        /\ MacroOnly(appFilteredData)
              => /\ dataResolution(appFilteredData) = "macro"
                 /\ \A code \in Range(REGIONS_MAP) :
                       ColorShown(code) = ColorShown(MacroParent(code))

\* the colour of each category of the single-record legend
CategoryColor(value) ==
    CASE value = "Present" -> SoftGreen
      [] value = "Doubtful" -> SoftYellow
      [] value = "Absent" -> SoftSlate

\* C8: with exactly one record in the collection, each region code is
\* classified from that record's value alone: "y" Present, "?" Doubtful, any
\* other value (empty and missing included) Absent, with no count and no
\* normalisation.
C8_SingletonClassification ==
    (MapShown /\ Len(appFilteredData) = 1) =>
        LET st == regionStats(appFilteredData)
        IN  \A code \in Range(REGIONS_MAP) \cup DOMAIN MACRO_REGIONS :
                LET c == getColor(code, appFilteredData, st)
                IN  /\ c = CategoryColor(RegionValue(appFilteredData[1], code))
                    /\ c.kind = "fixed"

\* the map shows one record with Lo doubtful, Si present, and the other
\* regions absent, coloured yellow, green and slate
C8_Witness ==
    /\ MapShown
    /\ Len(appFilteredData) = 1
    /\ Get(appFilteredData[1], "Lo") = <<"?">>
    /\ Get(appFilteredData[1], "Si") = <<"y">>
    /\ "Pi" \notin DOMAIN appFilteredData[1]
    /\ ColorShown("Lo") = SoftYellow
    /\ ColorShown("Si") = SoftGreen
    /\ ColorShown("Pi") = SoftSlate

\* the greatest (at least 1) and the least of a set of region counts
Greatest(counts) == CHOOSE m \in counts \cup {1} : \A x \in counts \cup {1} : x <= m
Least(counts) == CHOOSE m \in counts : \A x \in counts : m <= x

\* C9: with zero or at least two records, a region whose count is 0 is in the
\* no-data state, and a region with a non-zero count has intensity 1 if
\* max = min and (count - min) / (max - min) otherwise (max the greatest count
\* but at least 1, min the least count); no division by zero, the intensity
\* in [0, 1], and exactly 1 for every non-zero region when all non-zero
\* counts are the same.
C9_MultiRecordNormalisation ==
    (MapShown /\ Len(appFilteredData) # 1) =>
        LET data == appFilteredData
            st == regionStats(data)
            present == [code \in Range(REGIONS_MAP) |-> PresentCount(data, code)]
            counts == { present[code] : code \in Range(REGIONS_MAP) }
            hi == Greatest(counts)
            lo == Least(counts)
        IN  \A code \in Range(REGIONS_MAP) :
                LET n == present[code]
                    c == getColor(code, data, st)
                IN  /\ n = 0 => c = SoftSlate
                    /\ n # 0 =>
                          /\ c.kind = "colorScale"
                          /\ c.den # 0
                          /\ 0 <= c.num /\ c.num <= c.den
                          /\ hi = lo => c.num = c.den
                          /\ hi # lo => c.num * (hi - lo) = (n - lo) * c.den
                          /\ Cardinality(counts \ {0}) = 1 => c.num = c.den

\* the map shows two records, both present in Lo and Si and in no other
\* region: counts 0, 2, 2, with Lo and Si at intensity 1
C9_Witness ==
    /\ MapShown
    /\ Len(appFilteredData) = 2
    /\ \A code \in Range(REGIONS_MAP) :
          PresentCount(appFilteredData, code) = IF code \in {"Lo", "Si"} THEN 2 ELSE 0
    /\ ColorShown("Lo") = ScaleColor(2, 2)
    /\ ColorShown("Si") = ScaleColor(2, 2)
    /\ ColorShown("Pi") = SoftSlate

---------------------------------------------------------------------------
(* The load on every outcome of the fetch and of the parse *)

\* rows as Papa.parse delivers them: Genere absent, empty or "g", Specie
\* absent or "s"
FetchRows ==
    { RowOf([k \in {"Genere", "Specie"} |->
                CASE k = "Genere" -> g
                  [] k = "Specie" -> sp]) :
        g \in Opt({<<>>, <<"g">>}), sp \in Opt({<<"s">>}) }

\* a rejected fetch delivers no text; a response, whatever its ok flag, has a
\* body that Papa.parse turns into rows, with or without errors
InitFetch ==
    /\ response \in Responses
    /\ parseErrors \in BOOLEAN
    /\ rawData \in Datasets(FetchRows, MaxRows)
    /\ response = "rejected" => (rawData = <<>> /\ parseErrors = FALSE)
    /\ InitApp

NextFetch ==
    \/ LoadComplete
    \/ \E mode \in {"table", "map"} : SetViewMode(mode)

SpecFetch == InitFetch /\ [][NextFetch]_vars

\* the source is unreachable or its text is unparsable
SourceFailed == response \in {"rejected", "notOk"} \/ parseErrors

\* the records the rendered view holds: none behind the loading screen, the
\* sorted rows in the table view, the filtered rows in the map view
ShownRecords ==
    IF loading THEN <<>>
    ELSE IF viewMode = "table" THEN tableSortedData ELSE appFilteredData

\* C13: when the fetch rejects, the response is not a success or the text is
\* unparsable, the record collection stays empty and no view shows a record;
\* when the source is good, rows without Genere or Specie do not fail the
\* load: the completed load holds the rows that have both.
C13_LoadFailsAsAWhole ==
    /\ SourceFailed => (allData = <<>> /\ ShownRecords = <<>>)
    /\ (~SourceFailed /\ ~loading) => allData = processed(rawData)

---------------------------------------------------------------------------
(* The application: every operation, on bounded inputs *)

\* rows that pass the loader, with a Famiglia cell and a Lo cell that may be
\* absent or differ in case
AppRows ==
    { RowOf([k \in {"Genere", "Specie", "Famiglia", "Lo"} |->
                CASE k = "Genere" -> <<"g">>
                  [] k = "Specie" -> <<"s">>
                  [] k = "Famiglia" -> f
                  [] k = "Lo" -> lo]) :
        f \in {<<"A", "b">>, <<"b", "a">>}, lo \in Opt({<<"y">>, <<"Y">>}) }

\* the one column whose Sidebar input, checkbox, table input and header the
\* user acts on in this model
AppCols == {"Famiglia"}

\* the columns a Sidebar filter edit is tried on: Famiglia, and the region
\* column Lo, for which the Sidebar renders no input
SidebarTries == AppCols \cup ClickCodes

\* the texts typed into the table filter input: one that clears it and one
\* that matches the Famiglia cell "Ab" only
TableQueries == {<<>>, <<"a", "B">>}

Init ==
    /\ SourceGood
    /\ rawData \in Datasets(AppRows, MaxRows)
    /\ InitApp

Next ==
    \/ LoadComplete
    \/ \E mode \in {"table", "map"} : SetViewMode(mode)
    \/ \E col \in SidebarTries, value \in Queries : HandleFilterChange(col, value)
    \/ \E code \in ClickCodes : HandleRegionClick(code)
    \/ \E col \in AppCols : HandleColumnToggle(col)
    \/ \E col \in AppCols, value \in TableQueries : TableSetFilter(col, value)
    \/ \E key \in AppCols, shiftKey \in BOOLEAN : ToggleSort(key, shiftKey)

Spec == Init /\ [][Next]_vars

\* the App filter map holds "y" for a region code
RegionFilterSet(flt, code) == code \in DOMAIN flt /\ flt[code] = <<"y">>

\* the cell of a record for a code holds a "y", in either case
HoldsY(rec, code) == includes(toLowerCase(cellString(rec, code)), <<"y">>)

\* C16: once the App filter of a region code is "y", which only a click on
\* the map sets, it is "y" after every step of the application, and every
\* record of the filtered collection holds a "y" (in either case, as the
\* filter matches) in its cell for that region.
C16_RegionFilterStays ==
    /\ [][\A code \in clickableCodes :
            RegionFilterSet(filters, code) => RegionFilterSet(filters', code)]_vars
    /\ [](\A code \in clickableCodes :
            RegionFilterSet(filters, code) =>
                \A i \in 1..Len(appFilteredData) :
                    HoldsY(appFilteredData[i], code))

\* after a click on Lo the user is back in the map view with a Famiglia
\* filter as well, Lo is still filtered on "y", and of the two loaded records
\* only the one with Lo = "y" is in the filtered collection
C16_Witness ==
    /\ Rendered
    /\ viewMode = "map"
    /\ RegionFilterSet(filters, "Lo")
    /\ "Famiglia" \in DOMAIN filters
    /\ Len(allData) = 2
    /\ ~HoldsY(allData[1], "Lo")
    /\ appFilteredData = <<allData[2]>>

\* C17: a click on a region of the map leaves as filtered collection exactly
\* the records of the filtered collection before the click whose cell for the
\* region is "y", so the table then shows as many records as the map counted
\* for the region.
C17_ClickShowsCountedRecords ==
    [][\A code \in clickableCodes :
          HandleRegionClick(code) =>
              /\ appFilteredData' =
                    SelectSeq(appFilteredData,
                              LAMBDA rec : Get(rec, code) = <<"y">>)
              /\ Len(tableSortedData') = regionCount(appFilteredData, code)]_vars

===========================================================================
